---- MODULE Spec2Model ----
(***************************************************************************)
(* Model of stream.py: the rolling statistics (calculate_moving_average),  *)
(* the anomaly rule (detect_anomalies), the 4-way chunked execution        *)
(* (parallel_analysis over a ProcessPoolExecutor) and the live-reading     *)
(* classifier (check_temperature_anomaly).                                 *)
(*                                                                         *)
(* Numbers.  Temperatures are integers.  A pandas float that is a mean is  *)
(* the exact fraction num/den; a float that is a standard deviation is     *)
(* kept as its square num/den (so sqrt never has to be taken); NaN is the  *)
(* record with nan = TRUE.  Comparisons follow IEEE-754: any comparison    *)
(* with NaN is false.  Rounding of binary floating point is not modelled.  *)
(***************************************************************************)
EXTENDS Integers, Sequences, FiniteSets, TLC

VARIABLES
    df,          \* parallel_analysis: the series passed in (rows in input order)
    window,      \* the `window` calculate_moving_average runs with: 30 as called
                 \* by executor.map, and the smaller windows the function takes
    pc,          \* parallel_analysis: position of the calling process
    df_split,    \* the chunks np.array_split produced (<<>> before the split)
    task,        \* task[k]: state of the future of chunk k (k = 0..3)
    results,     \* results[k]: what the worker of chunk k returned
    collected,   \* how many results list(executor.map(...)) has consumed
    runs,        \* runs[k]: how many times chunk k was handed to a worker
    overtaken,   \* some worker finished before the worker of an earlier chunk
    detect_runs, \* how many times detect_anomalies ran
    error,       \* chunk whose exception the call raised (NoError if none)
    out,         \* the series parallel_analysis returned (<<>> before)
    hist,        \* check_temperature_anomaly: the full multi-city series
    query,       \* its arguments (current_temp, city, season)
    label,       \* the label it returned
    lpc          \* its position: "idle" or "done"

vars == <<df, window, pc, df_split, task, results, collected, runs, overtaken,
          detect_runs, error, out, hist, query, label, lpc>>

pvars == <<df, window, pc, df_split, task, results, collected, runs, overtaken,
           detect_runs, error, out>>

lvars == <<hist, query, label, lpc>>

-----------------------------------------------------------------------------
(* Bounds of the model and constants of the program *)

MaxLen == 3          \* every series of at most this many rows is an input
MaxLong == 22        \* rows of the longest single-outlier series
MaxTemp == 1         \* temperatures range over 0..MaxTemp
MaxWindow == 2       \* windows 1..MaxWindow, besides the default
MaxHist == 3         \* rows of the historical series of the live classifier

DefaultWindow == 30  \* def calculate_moving_average(df, window=30)
NumChunks == 4       \* np.array_split(df, 4)
NumSigma == 2        \* the 2 in  mean +/- 2 * std

Temps == 0..MaxTemp
Windows == (1..MaxWindow) \cup {DefaultWindow}
ChunkIds == 0..(NumChunks - 1)
NoError == <<>>        \* error = <<k>> once chunk k's exception is raised

NormalLabel == "Temperatura v predelakh normy"      \* "Температура в пределах нормы"
AnomalousLabel == "Anomal'naya temperatura!"        \* "Аномальная температура!"

-----------------------------------------------------------------------------
(* Floats *)

NaN == [nan |-> TRUE, num |-> 0, den |-> 1]

Frac(n, d) == [nan |-> FALSE, num |-> n, den |-> d]

RECURSIVE SumSeq(_)
SumSeq(xs) == IF xs = <<>> THEN 0 ELSE Head(xs) + SumSeq(Tail(xs))

SumSqSeq(xs) == SumSeq([i \in 1..Len(xs) |-> xs[i] * xs[i]])

\* Series.mean(): NaN on an empty series
Mean(xs) == IF Len(xs) = 0 THEN NaN ELSE Frac(SumSeq(xs), Len(xs))

\* Series.std() (ddof = 1), squared: NaN with fewer than 2 values
Std(xs) ==
    LET n == Len(xs)
    IN  IF n < 2 THEN NaN
        ELSE Frac(n * SumSqSeq(xs) - SumSeq(xs) * SumSeq(xs), n * (n - 1))

\* mean + k * std, the std given by its square; NaN if either operand is
Bound(mean, k, std) == [nan |-> mean.nan \/ std.nan, mean |-> mean, k |-> k, std |-> std]

\* Order of the number t against the bound b: -1 (t < b), 0 (t = b),
\* 1 (t > b), or 2 when b is NaN (unordered)
Cmp(t, b) ==
    IF b.nan THEN 2
    ELSE LET d == t * b.mean.den - b.mean.num           \* sign of t - mean
             L == d * d * b.std.den                     \* (t - mean)^2, scaled
             R == b.k * b.k * b.std.num * b.mean.den * b.mean.den  \* (k*std)^2
         IN  IF b.k >= 0
             THEN IF d < 0 THEN -1
                  ELSE IF L > R THEN 1 ELSE IF L = R THEN 0 ELSE -1
             ELSE IF d > 0 THEN 1
                  ELSE IF L > R THEN -1 ELSE IF L = R THEN 0 ELSE 1

FloatGT(t, b) == Cmp(t, b) = 1      \* t > b
FloatLT(t, b) == Cmp(t, b) = -1     \* t < b
FloatGE(t, b) == Cmp(t, b) \in {0, 1}    \* b <= t
FloatLE(t, b) == Cmp(t, b) \in {-1, 0}   \* t <= b

-----------------------------------------------------------------------------
(* Rolling statistics: Series.rolling(window, min_periods=1).mean() / .std() *)

EmptyWindow == [n |-> 0, sum |-> 0, sumsq |-> 0]

\* Faulty variant: the oldest row leaves one step too early
RollStep_off_by_one(xs, w, i, prev) ==
    LET added == [n |-> prev.n + 1, sum |-> prev.sum + xs[i],
                  sumsq |-> prev.sumsq + xs[i] * xs[i]]
    IN  IF i >= w /\ i > 1
        THEN [n |-> added.n - 1, sum |-> added.sum - xs[i - w + 1],
              sumsq |-> added.sumsq - xs[i - w + 1] * xs[i - w + 1]]
        ELSE added

\* The window ending at row i, from the window ending at row i-1: row i
\* enters, and row i-w leaves once more than w rows have been seen
RollStep(xs, w, i, prev) ==
    LET added == [n |-> prev.n + 1, sum |-> prev.sum + xs[i],
                  sumsq |-> prev.sumsq + xs[i] * xs[i]]
    IN  IF i > w
        THEN [n |-> added.n - 1, sum |-> added.sum - xs[i - w],
              sumsq |-> added.sumsq - xs[i - w] * xs[i - w]]
        ELSE added

RECURSIVE RollFrom(_, _, _, _)
RollFrom(xs, w, i, prev) ==
    IF i > Len(xs) THEN <<>>
    ELSE LET cur == RollStep(xs, w, i, prev)
         IN  <<cur>> \o RollFrom(xs, w, i + 1, cur)

\* .mean() of a window: defined from min_periods = 1 observation on
RollMean(win) == IF win.n < 1 THEN NaN ELSE Frac(win.sum, win.n)

\* Faulty variant: population deviation (ddof = 0), defined for one row
RollStd_ddof0(win) ==
    IF win.n < 1 THEN NaN ELSE Frac(win.n * win.sumsq - win.sum * win.sum, win.n * win.n)

\* .std() of a window (ddof = 1), squared: NaN for a single observation
RollStd(win) ==
    IF win.n < 2 THEN NaN
    ELSE Frac(win.n * win.sumsq - win.sum * win.sum, win.n * (win.n - 1))

Temperatures(d) == [i \in 1..Len(d) |-> d[i].temperature]

\* Faulty variant: an expanding window, the size w ignored
calculate_moving_average_expanding(d, w) ==
    LET wins == RollFrom(Temperatures(d), Len(d) + 1, 1, EmptyWindow)
    IN  [i \in 1..Len(d) |->
            [timestamp |-> d[i].timestamp, city |-> d[i].city,
             season |-> d[i].season, temperature |-> d[i].temperature,
             moving_avg |-> RollMean(wins[i]), std_dev |-> RollStd(wins[i])]]

calculate_moving_average(d, w) ==
    LET wins == RollFrom(Temperatures(d), w, 1, EmptyWindow)
    IN  [i \in 1..Len(d) |->
            [timestamp |-> d[i].timestamp, city |-> d[i].city,
             season |-> d[i].season, temperature |-> d[i].temperature,
             moving_avg |-> RollMean(wins[i]), std_dev |-> RollStd(wins[i])]]

-----------------------------------------------------------------------------
(* Anomaly rule *)

\* Faulty variant: only the upper bound is tested
IsAnomaly_one_sided(r) ==
    FloatGT(r.temperature, Bound(r.moving_avg, NumSigma, r.std_dev))

\* (temperature > moving_avg + 2*std_dev) | (temperature < moving_avg - 2*std_dev)
IsAnomaly(r) ==
    \/ FloatGT(r.temperature, Bound(r.moving_avg, NumSigma, r.std_dev))
    \/ FloatLT(r.temperature, Bound(r.moving_avg, -NumSigma, r.std_dev))

detect_anomalies(d) ==
    [i \in 1..Len(d) |->
        [timestamp |-> d[i].timestamp, city |-> d[i].city,
         season |-> d[i].season, temperature |-> d[i].temperature,
         moving_avg |-> d[i].moving_avg, std_dev |-> d[i].std_dev,
         is_anomaly |-> IsAnomaly(d[i])]]

-----------------------------------------------------------------------------
(* Split and reassembly *)

\* First row (1-based) of section k of np.array_split(d, 4): the first
\* n % 4 sections hold n // 4 + 1 rows, the others n // 4
DivPoint(n, k) ==
    LET each == n \div NumChunks
        extras == n % NumChunks
    IN  (IF k <= extras THEN k * (each + 1)
         ELSE extras * (each + 1) + (k - extras) * each) + 1

\* Faulty variant: n // 4 rows per chunk, the remainder all in the last
array_split_tail_heavy(d) ==
    LET each == Len(d) \div NumChunks
    IN  [k \in ChunkIds |->
            IF k < NumChunks - 1 THEN SubSeq(d, k * each + 1, (k + 1) * each)
            ELSE SubSeq(d, k * each + 1, Len(d))]

\* Faulty variant: the whole series in chunk 0
array_split_nosplit(d) ==
    [k \in ChunkIds |-> IF k = 0 THEN d ELSE <<>>]

array_split(d) ==
    [k \in ChunkIds |-> SubSeq(d, DivPoint(Len(d), k), DivPoint(Len(d), k + 1) - 1)]

RECURSIVE ConcatFrom(_, _)
ConcatFrom(rs, k) ==
    IF k > NumChunks - 1 THEN <<>> ELSE rs[k] \o ConcatFrom(rs, k + 1)

RECURSIVE ConcatDownFrom(_, _)
ConcatDownFrom(rs, k) ==
    IF k < 0 THEN <<>> ELSE rs[k] \o ConcatDownFrom(rs, k - 1)

\* Faulty variant: the frames in reverse order
pd_concat_reversed(rs) == ConcatDownFrom(rs, NumChunks - 1)

\* pd.concat(results): the frames one after the other, in list order
pd_concat(rs) == ConcatFrom(rs, 0)

-----------------------------------------------------------------------------
(* Inputs *)

Seasons == <<"winter", "spring", "summer", "autumn">>

SeasonOf(i) == Seasons[((i - 1) % Len(Seasons)) + 1]

\* A row as load_data delivers it: the four CSV columns
Row(i, t) == [timestamp |-> i, city |-> "X", season |-> SeasonOf(i), temperature |-> t]

Rows(ts) == [i \in 1..Len(ts) |-> Row(i, ts[i])]

ShortSeries == UNION {[1..n -> Temps] : n \in 0..MaxLen}

\* A flat series of MaxLong - 1 or MaxLong rows with one outlier, above or
\* below the rest
SpikeSeries ==
    {[i \in 1..n |-> IF i = p THEN MaxTemp - b ELSE b] :
        n \in (MaxLong - 1)..MaxLong, p \in 1..MaxLong, b \in {0, MaxTemp}}

Inputs == {Rows(ts) : ts \in ShortSeries \cup SpikeSeries}

-----------------------------------------------------------------------------
(* parallel_analysis *)

NoResults == [k \in ChunkIds |-> <<>>]

\* df_split = np.array_split(df, 4); executor.map(...) submits one task per
\* chunk before it returns its iterator
Submit ==
    /\ pc = "start"
    /\ df_split' = array_split(df)
    /\ task' = [k \in ChunkIds |-> "pending"]
    /\ pc' = "collect"
    /\ UNCHANGED <<df, window, results, collected, runs, overtaken,
                   detect_runs, error, out>>

\* A pool process takes the task of chunk k
Start(k) ==
    /\ pc # "start"
    /\ task[k] = "pending"
    /\ task' = [task EXCEPT ![k] = "running"]
    /\ runs' = [runs EXCEPT ![k] = @ + 1]
    /\ UNCHANGED <<df, window, pc, df_split, results, collected, overtaken,
                   detect_runs, error, out>>

\* The worker runs calculate_moving_average on its copy of chunk k and sends
\* the frame back
Finish(k) ==
    /\ task[k] = "running"
    /\ results' = [results EXCEPT ![k] = calculate_moving_average(df_split[k], window)]
    /\ task' = [task EXCEPT ![k] = "done"]
    /\ overtaken' = (overtaken \/ \E j \in ChunkIds : j < k /\ task[j] # "done")
    /\ UNCHANGED <<df, window, pc, df_split, collected, runs, detect_runs, error, out>>

\* The worker of chunk k raises (or its process dies): the future holds the
\* exception
Fail(k) ==
    /\ task[k] = "running"
    /\ task' = [task EXCEPT ![k] = "failed"]
    /\ UNCHANGED <<df, window, pc, df_split, results, collected, runs,
                   overtaken, detect_runs, error, out>>

\* Faulty variant: a failed chunk is skipped and the rest assembled
Collect_skip_failed ==
    /\ pc = "collect"
    /\ collected < NumChunks
    /\ task[collected] \in {"done", "failed"}
    /\ collected' = collected + 1
    /\ pc' = IF collected' = NumChunks THEN "concat" ELSE "collect"
    /\ UNCHANGED <<df, window, df_split, task, results, runs, overtaken,
                   detect_runs, error, out>>

\* list(executor.map(...)) takes the next result in submission order,
\* blocking until that future is settled; a future holding an exception
\* re-raises it, and the iterator cancels the futures it has not reached
\* that are still pending
Collect ==
    /\ pc = "collect"
    /\ collected < NumChunks
    /\ \/ /\ task[collected] = "done"
          /\ collected' = collected + 1
          /\ pc' = IF collected' = NumChunks THEN "concat" ELSE "collect"
          /\ UNCHANGED <<task, error>>
       \/ /\ task[collected] = "failed"
          /\ error' = <<collected>>
          /\ task' = [k \in ChunkIds |->
                        IF k > collected /\ task[k] = "pending"
                        THEN "cancelled" ELSE task[k]]
          /\ pc' = "shutdown"
          /\ UNCHANGED collected
    /\ UNCHANGED <<df, window, df_split, results, runs, overtaken, detect_runs, out>>

\* df = pd.concat(results); df = detect_anomalies(df); the with block ends
\* (every task is done) and the series is returned
ConcatDetectReturn ==
    /\ pc = "concat"
    /\ out' = detect_anomalies(pd_concat(results))
    /\ detect_runs' = detect_runs + 1
    /\ pc' = "returned"
    /\ UNCHANGED <<df, window, df_split, task, results, collected, runs,
                   overtaken, error>>

\* The exception leaves the with block: executor.shutdown(wait=True) waits
\* for the running tasks, then the call raises
ShutdownRaise ==
    /\ pc = "shutdown"
    /\ \A k \in ChunkIds : task[k] # "running"
    /\ pc' = "raised"
    /\ UNCHANGED <<df, window, df_split, task, results, collected, runs,
                   overtaken, detect_runs, error, out>>

-----------------------------------------------------------------------------
(* check_temperature_anomaly *)

Cities == {"X", "Y"}
LiveSeasons == {"summer", "winter"}

HistRow(c, s, t) == [city |-> c, season |-> s, temperature |-> t]

HistRows == {HistRow(c, s, t) : c \in Cities, s \in LiveSeasons, t \in Temps}
               \ {HistRow("Y", "winter", t) : t \in Temps}

\* city "X", season "summer", temperatures 20, 22, 24, 26, 28
ExampleHist ==
    [i \in 1..5 |-> HistRow("X", "summer", 18 + 2 * i)]

Histories == UNION {[1..n -> HistRows] : n \in 0..MaxHist} \cup {ExampleHist}

Readings == ((0 - 1)..(MaxTemp + 1)) \cup {24, 40}

\* df[(df['city'] == city) & (df['season'] == season)]
SeasonalData(city, season, d) ==
    SelectSeq(d, LAMBDA r : r.city = city /\ r.season = season)

\* Faulty variant: strict comparisons, the bounds themselves excluded
check_temperature_anomaly_strict(current_temp, city, season, d) ==
    LET seasonal_data == SeasonalData(city, season, d)
        mean_temp == Mean(Temperatures(seasonal_data))
        std_temp == Std(Temperatures(seasonal_data))
        lower_bound == Bound(mean_temp, -NumSigma, std_temp)
        upper_bound == Bound(mean_temp, NumSigma, std_temp)
    IN  IF FloatGT(current_temp, lower_bound) /\ FloatLT(current_temp, upper_bound)
        THEN NormalLabel ELSE AnomalousLabel

check_temperature_anomaly(current_temp, city, season, d) ==
    LET seasonal_data == SeasonalData(city, season, d)
        mean_temp == Mean(Temperatures(seasonal_data))
        std_temp == Std(Temperatures(seasonal_data))
        lower_bound == Bound(mean_temp, -NumSigma, std_temp)
        upper_bound == Bound(mean_temp, NumSigma, std_temp)
    IN  IF FloatGE(current_temp, lower_bound) /\ FloatLE(current_temp, upper_bound)
        THEN NormalLabel ELSE AnomalousLabel

CheckTemperatureAnomaly(current_temp, city, season) ==
    /\ lpc = "idle"
    /\ query' = [current_temp |-> current_temp, city |-> city, season |-> season]
    /\ label' = check_temperature_anomaly(current_temp, city, season, hist)
    /\ lpc' = "done"
    /\ UNCHANGED hist

-----------------------------------------------------------------------------
(* Specifications *)

NoQuery == [current_temp |-> 0, city |-> "", season |-> ""]

PipelineIdle ==
    /\ df = <<>> /\ window = DefaultWindow /\ pc = "unused"
    /\ df_split = <<>> /\ task = [k \in ChunkIds |-> "none"]
    /\ results = NoResults /\ collected = 0
    /\ runs = [k \in ChunkIds |-> 0] /\ overtaken = FALSE
    /\ detect_runs = 0 /\ error = NoError /\ out = <<>>

LiveIdle ==
    /\ hist = <<>> /\ query = NoQuery /\ label = "" /\ lpc = "unused"

\* One call of parallel_analysis(df)
Init ==
    /\ df \in Inputs
    /\ window \in Windows
    /\ pc = "start"
    /\ df_split = <<>>
    /\ task = [k \in ChunkIds |-> "none"]
    /\ results = NoResults
    /\ collected = 0
    /\ runs = [k \in ChunkIds |-> 0]
    /\ overtaken = FALSE
    /\ detect_runs = 0
    /\ error = NoError
    /\ out = <<>>
    /\ LiveIdle

Next ==
    \/ Submit /\ UNCHANGED lvars
    \/ \E k \in ChunkIds : Start(k) /\ UNCHANGED lvars
    \/ \E k \in ChunkIds : Finish(k) /\ UNCHANGED lvars
    \/ \E k \in ChunkIds : Fail(k) /\ UNCHANGED lvars
    \/ Collect /\ UNCHANGED lvars
    \/ ConcatDetectReturn /\ UNCHANGED lvars
    \/ ShutdownRaise /\ UNCHANGED lvars

Spec == Init /\ [][Next]_vars

\* One call of check_temperature_anomaly(current_temp, city, season, df)
InitLive ==
    /\ hist \in Histories
    /\ query = NoQuery
    /\ label = ""
    /\ lpc = "idle"
    /\ PipelineIdle

NextLive ==
    \E t \in Readings, c \in Cities, s \in LiveSeasons :
        CheckTemperatureAnomaly(t, c, s) /\ UNCHANGED pvars

SpecLive == InitLive /\ [][NextLive]_vars

-----------------------------------------------------------------------------
(* Properties *)

\* Rows of the chunks before chunk k
RECURSIVE Offset(_)
Offset(k) == IF k = 0 THEN 0 ELSE Offset(k - 1) + Len(df_split[k - 1])

SameFrac(a, b) ==
    /\ a.nan = b.nan
    /\ ~a.nan => a.num * b.den = b.num * a.den

SameInput(r, q) ==
    /\ r.timestamp = q.timestamp
    /\ r.city = q.city
    /\ r.season = q.season
    /\ r.temperature = q.temperature

\* The pipeline without the split: calculate_moving_average, then
\* detect_anomalies, on the whole series
Unchunked == detect_anomalies(calculate_moving_average(df, window))

SameAnalysis(r, q) ==
    /\ SameFrac(r.moving_avg, q.moving_avg)
    /\ SameFrac(r.std_dev, q.std_dev)
    /\ r.is_anomaly = q.is_anomaly

Abs(x) == IF x < 0 THEN 0 - x ELSE x

\* C2: whatever the order in which the workers start and finish, the series
\* returned has the length of the input, its row i is the input's row i
\* (timestamp, city, season, temperature), and it is chunk 0's rows, then
\* chunk 1's, chunk 2's, chunk 3's.
C2_OrderPreserved ==
    pc = "returned" =>
        /\ Len(out) = Len(df)
        /\ \A i \in 1..Len(df) : SameInput(out[i], df[i])
        /\ \A k \in ChunkIds : \A j \in 1..Len(df_split[k]) :
              SameInput(out[Offset(k) + j], df_split[k][j])

C2_Witness ==
    /\ pc = "returned"
    /\ overtaken
    /\ Len(df) > NumChunks
    /\ \E i \in 1..Len(df) : df[i].temperature # df[1].temperature

\* No step is possible: no task is waiting or running and the caller is
\* neither about to go on nor able to take a settled result
Halted ==
    /\ pc \notin {"start", "concat", "shutdown"}
    /\ \A k \in ChunkIds : task[k] \notin {"pending", "running"}
    /\ pc = "collect" => (collected >= NumChunks \/ task[collected] \notin {"done", "failed"})

\* C3: a result is returned only once all 4 workers have succeeded; when a
\* worker has failed nothing is returned, detect_anomalies has not run, the
\* call ends raising the exception of a failed worker, and no chunk is handed
\* to a worker twice.
C3_AllOrNothing ==
    /\ pc \in {"concat", "returned"} =>
          /\ \A k \in ChunkIds : task[k] = "done"
          /\ error = NoError
    /\ (\E k \in ChunkIds : task[k] = "failed") =>
          /\ pc \notin {"concat", "returned"}
          /\ out = <<>>
          /\ detect_runs = 0
    /\ pc \in {"shutdown", "raised"} =>
          /\ error # NoError
          /\ task[error[1]] = "failed"
          /\ out = <<>>
          /\ detect_runs = 0
    /\ ((\E k \in ChunkIds : task[k] = "failed") /\ Halted) => pc = "raised"
    /\ \A k \in ChunkIds : runs[k] <= 1

C3_Witness ==
    /\ pc = "raised"
    /\ \E k \in ChunkIds : task[k] = "done" /\ Len(results[k]) > 0
    /\ out = <<>>

\* |temperature - moving_avg| > 2 * std_dev, with std_dev defined
OutsideBand(r) ==
    /\ ~r.std_dev.nan
    /\ ~r.moving_avg.nan
    /\ LET d == r.temperature * r.moving_avg.den - r.moving_avg.num
       IN  d * d * r.std_dev.den >
              NumSigma * NumSigma * r.std_dev.num * r.moving_avg.den * r.moving_avg.den

\* C4: in the series returned, every row carries the moving_avg and std_dev
\* its chunk's worker attached to it, and its is_anomaly is true exactly when
\* its std_dev is defined and its temperature is above moving_avg + 2*std_dev
\* or below moving_avg - 2*std_dev; it is false when std_dev is undefined.
C4_ClassifierConsistent ==
    pc = "returned" =>
        /\ \A k \in ChunkIds : \A j \in 1..Len(results[k]) :
              /\ out[Offset(k) + j].moving_avg = results[k][j].moving_avg
              /\ out[Offset(k) + j].std_dev = results[k][j].std_dev
        /\ \A i \in 1..Len(out) :
              /\ out[i].is_anomaly <=> OutsideBand(out[i])
              /\ out[i].std_dev.nan => ~out[i].is_anomaly

C4_Witness ==
    /\ pc = "returned"
    /\ \E i \in 1..Len(out) :
          /\ out[i].is_anomaly
          /\ out[i].temperature * out[i].moving_avg.den < out[i].moving_avg.num
    /\ \E i \in 1..Len(out) : ~out[i].std_dev.nan /\ ~out[i].is_anomaly

\* The rows of chunk c in the window of size w ending at row i
WindowOf(c, w, i) ==
    SubSeq(Temperatures(c), IF i - w + 1 > 1 THEN i - w + 1 ELSE 1, i)

\* C5: what a worker returns for its chunk, window w >= 1: at every row i,
\* moving_avg is the mean and std_dev the sample (N-1) standard deviation of
\* the chunk's temperatures at rows max(0, i-w+1)..i; moving_avg is always
\* defined, std_dev is undefined exactly when the window holds one row.
C5_RollingStatistics ==
    \A k \in ChunkIds : task[k] = "done" =>
        /\ Len(results[k]) = Len(df_split[k])
        /\ \A i \in 1..Len(df_split[k]) :
              LET xs == WindowOf(df_split[k], window, i)
                  r == results[k][i]
              IN  /\ ~r.moving_avg.nan
                  /\ SameFrac(r.moving_avg, Mean(xs))
                  /\ r.std_dev.nan <=> Len(xs) = 1
                  /\ SameFrac(r.std_dev, Std(xs))

C5_Witness ==
    \E k \in ChunkIds :
        /\ task[k] = "done"
        /\ window > 1
        /\ window < Len(df_split[k])
        /\ \E i \in 1..Len(df_split[k]) :
              /\ i > window
              /\ results[k][i].std_dev.num > 0
              /\ results[k][i - 1].std_dev.num > 0

\* C7: in the series returned, the first row of every non-empty chunk has
\* std_dev undefined and is_anomaly false.
C7_ChunkStartNeverAnomalous ==
    pc = "returned" =>
        \A k \in ChunkIds : Len(df_split[k]) > 0 =>
            /\ out[Offset(k) + 1].std_dev.nan
            /\ ~out[Offset(k) + 1].is_anomaly

C7_Witness ==
    /\ pc = "returned"
    /\ \A k \in ChunkIds : Len(df_split[k]) > 1
    /\ \E k \in ChunkIds :
          /\ k > 0
          /\ out[Offset(k) + 1].temperature # out[Offset(k)].temperature
          /\ out[Offset(k) + 1].std_dev.nan

\* The input rows (by timestamp) that chunk k holds
RowsIn(k) == {df_split[k][j].timestamp : j \in 1..Len(df_split[k])}

\* C8: the split yields exactly 4 chunks, each a contiguous run of rows, in
\* order, every row in exactly one chunk, sizes differing by at most 1 (some
\* chunks empty when n < 4), sizes fixed by n alone; 4 tasks are dispatched.
C8_EvenSplit ==
    pc # "start" =>
        /\ DOMAIN df_split = ChunkIds
        /\ DOMAIN task = ChunkIds
        /\ \A k \in ChunkIds : task[k] # "none"
        /\ Offset(NumChunks) = Len(df)
        /\ \A k \in ChunkIds :
              df_split[k] = SubSeq(df, Offset(k) + 1, Offset(k) + Len(df_split[k]))
        /\ UNION {RowsIn(k) : k \in ChunkIds} = {df[i].timestamp : i \in 1..Len(df)}
        /\ \A j, k \in ChunkIds : j # k => RowsIn(j) \cap RowsIn(k) = {}
        /\ \A j, k \in ChunkIds : Abs(Len(df_split[j]) - Len(df_split[k])) <= 1
        /\ \A k \in ChunkIds :
              Len(df_split[k]) \in {Len(df) \div NumChunks, Len(df) \div NumChunks + 1}
        /\ Len(df) < NumChunks => \E k \in ChunkIds : df_split[k] = <<>>

C8_Witness ==
    /\ pc = "returned"
    /\ Len(df) > NumChunks
    /\ Len(df) % NumChunks # 0
    /\ \E j, k \in ChunkIds : Len(df_split[j]) # Len(df_split[k])

\* Row i is where chunk k (1, 2 or 3) of the 4-way split begins, the rows
\* before it are all alike, row i is not, at least 5 rows precede it and the
\* window reaches back over all of them
BoundaryOutlier(i) ==
    /\ \E k \in 1..(NumChunks - 1) : i = DivPoint(Len(df), k)
    /\ i <= Len(df)
    /\ i > 5
    /\ window >= i
    /\ \A j \in 1..(i - 1) : df[j].temperature = df[1].temperature
    /\ df[i].temperature # df[1].temperature

\* C9: chunked and unchunked analysis are not equivalent: an outlier that is
\* the first row of chunk 1, 2 or 3, after at least 5 equal rows inside the
\* window, is flagged by the unchunked pipeline and not by parallel_analysis.
C9_BoundaryOutlierDiffers ==
    pc = "returned" =>
        \A i \in 1..Len(df) : BoundaryOutlier(i) =>
            /\ Unchunked[i].is_anomaly
            /\ ~out[i].is_anomaly

C9_Witness ==
    /\ pc = "returned"
    /\ \E i \in 1..Len(df) :
          /\ BoundaryOutlier(i)
          /\ out[i].is_anomaly # Unchunked[i].is_anomaly

\* C10: every row of chunk 0, and every row of chunks 1-3 at position >= w-1
\* (0-based) of its chunk, has the moving_avg, std_dev and is_anomaly the
\* unchunked pipeline gives it.
C10_LossConfinedToBoundaries ==
    pc = "returned" =>
        \A k \in ChunkIds : \A j \in 1..Len(df_split[k]) :
            (k = 0 \/ j - 1 >= window - 1) =>
                SameAnalysis(out[Offset(k) + j], Unchunked[Offset(k) + j])

C10_Witness ==
    /\ pc = "returned"
    /\ window > 1
    /\ \E k \in 1..(NumChunks - 1) :
          /\ \E j \in 1..Len(df_split[k]) :
                /\ j - 1 >= window - 1
                /\ out[Offset(k) + j].std_dev.num > 0
          /\ \E j \in 1..Len(df_split[k]) :
                /\ j - 1 < window - 1
                /\ ~SameAnalysis(out[Offset(k) + j], Unchunked[Offset(k) + j])

(* The live classifier *)

\* Rows of hist matching both the city and the season asked for
MatchIdx ==
    {i \in 1..Len(hist) : hist[i].city = query.city /\ hist[i].season = query.season}

RECURSIVE SumIdx(_, _)
SumIdx(I, xs) ==
    IF I = {} THEN 0
    ELSE LET i == CHOOSE i \in I : TRUE IN xs[i] + SumIdx(I \ {i}, xs)

MatchN == Cardinality(MatchIdx)
MatchSum == SumIdx(MatchIdx, [i \in 1..Len(hist) |-> hist[i].temperature])
MatchSumSq ==
    SumIdx(MatchIdx, [i \in 1..Len(hist) |-> hist[i].temperature * hist[i].temperature])

\* (t - mean)^2 against (2 * stddev)^2, both scaled by n^2 * (n - 1), for the
\* mean and the sample standard deviation of the matching rows
DistSq == (MatchN * query.current_temp - MatchSum) * (MatchN * query.current_temp - MatchSum)
              * (MatchN - 1)
BandSq == NumSigma * NumSigma * MatchN * (MatchN * MatchSumSq - MatchSum * MatchSum)

\* C1: with fewer than 2 rows matching the city and the season, the call
\* returns the within-normal-range label.
C1_FewRecordsNormal ==
    (lpc = "done" /\ MatchN < 2) => label = NormalLabel

\* C6: with at least 2 matching rows, the reading is labelled anomalous
\* exactly when it lies outside [mean - 2*stddev, mean + 2*stddev] of the
\* matching rows, a reading on a bound being normal; for 20, 22, 24, 26, 28,
\* the reading 24 is normal and 40 is anomalous.
C6_ClosedBand ==
    (lpc = "done" /\ MatchN >= 2) =>
        /\ label \in {NormalLabel, AnomalousLabel}
        /\ label = AnomalousLabel <=> DistSq > BandSq
        /\ DistSq = BandSq => label = NormalLabel
        /\ (hist = ExampleHist /\ query.city = "X" /\ query.season = "summer") =>
              /\ query.current_temp = 24 => label = NormalLabel
              /\ query.current_temp = 40 => label = AnomalousLabel

C6_Witness ==
    /\ lpc = "done"
    /\ MatchN >= 2
    /\ MatchN < Len(hist)
    /\ DistSq = BandSq
    /\ label = NormalLabel

====
